---------------------------- MODULE Spec2Model ----------------------------
(***************************************************************************)
(* A model of the Simple Memory MCP server (src/main.py): two process-wide *)
(* insertion-ordered dictionaries, sessions and memories, and the eight    *)
(* tool handlers that read and write them.  Every handler is an async      *)
(* function without an await inside, so under asyncio each call runs to    *)
(* completion: one action per handler call.                                *)
(*                                                                         *)
(* Strings are sequences of one-character strings.  An id (a uuid4 string) *)
(* is a positive integer; the empty string given as an id is EmptyId.      *)
(* `arguments` is a record whose domain is the set of keys the caller      *)
(* supplied: arguments.get(k) is None exactly when k is not in its domain. *)
(***************************************************************************)
EXTENDS Integers, Sequences, FiniteSets, TLC

VARIABLES
    sessions,   \* dict session_id -> record, as the sequence of its values in insertion order
    memories,   \* dict memory_id -> record, as the sequence of its values in insertion order
    nextId,     \* the ids generate_id has handed out so far are 1..nextId-1
    last,       \* the last call: tool name, arguments, outcome and returned items
    threads     \* callers running handlers in parallel threads: the statement each
                \* is at and its local variables (all idle when calls run one at a time)

vars == <<sessions, memories, nextId, last, threads>>

\* Number of ids generate_id may hand out in one run (sessions and memories together).
MaxIds == 4

\* The empty string "" supplied where an id is expected.
EmptyId == 0

-----------------------------------------------------------------------------
(* Strings *)

Whitespace == {" "}

RECURSIVE lstrip(_)
lstrip(s) ==
    IF s # <<>> /\ Head(s) \in Whitespace THEN lstrip(Tail(s)) ELSE s

RECURSIVE rstrip(_)
rstrip(s) ==
    IF s # <<>> /\ s[Len(s)] \in Whitespace THEN rstrip(SubSeq(s, 1, Len(s) - 1)) ELSE s

\* Mutant: only the leading whitespace goes.
strip_left_only(s) == lstrip(s)

\* str.strip()
strip(s) == rstrip(lstrip(s))

LowerChar(c) ==
    CASE c = "A" -> "a"
      [] c = "B" -> "b"
      [] OTHER -> c

\* str.lower()
lower(s) == [i \in 1..Len(s) |-> LowerChar(s[i])]

\* needle in hay, for strings
Contains(needle, hay) ==
    \E i \in 0..(Len(hay) - Len(needle)) : SubSeq(hay, i + 1, i + Len(needle)) = needle

\* x in list
InList(x, list) == \E i \in 1..Len(list) : list[i] = x

-----------------------------------------------------------------------------
(* Clock and timestamps *)

\* datetime.isoformat(): the microseconds part is left out when it is zero.
\* A string of character codes: a digit d is 48 + d, the "." is 46.
isoformat(t) ==
    IF t.us = 0 THEN <<48 + t.s>> ELSE <<48 + t.s, 46, 48 + t.us>>

\* a < b for Python strings (lexicographic by character code, a proper prefix is smaller)
RECURSIVE StrLess(_, _)
StrLess(a, b) ==
    IF b = <<>> THEN FALSE
    ELSE IF a = <<>> THEN TRUE
    ELSE IF Head(a) # Head(b) THEN Head(a) < Head(b)
    ELSE StrLess(Tail(a), Tail(b))

\* The readings datetime.now() may give: a wall clock, so nothing orders two
\* successive readings.
Clock == {[s |-> 0, us |-> 0], [s |-> 0, us |-> 1]}

\* get_current_time() may return any of these.
get_current_time == {isoformat(t) : t \in Clock}

-----------------------------------------------------------------------------
(* Helpers of main.py *)

\* Mutant: an id derived from what is stored now, so a deleted record's id comes back.
generate_id_recycled ==
    CHOOSE id \in 1..(MaxIds + 1) :
        /\ \A i \in 1..Len(sessions) : sessions[i].id # id
        /\ \A i \in 1..Len(memories) : memories[i].id # id
        /\ \A smaller \in 1..(id - 1) :
              \/ \E i \in 1..Len(sessions) : sessions[i].id = smaller
              \/ \E i \in 1..Len(memories) : memories[i].id = smaller

\* generate_id(): a uuid4, an id never handed out before.
generate_id == nextId

session_exists(session_id) ==
    \E i \in 1..Len(sessions) : sessions[i].id = session_id

memory_exists(memory_id) ==
    \E i \in 1..Len(memories) : memories[i].id = memory_id

\* sessions[session_id]
SessionOf(sess, session_id) ==
    sess[CHOOSE i \in 1..Len(sess) : sess[i].id = session_id]

\* memories[memory_id]
MemoryOf(mems, memory_id) ==
    mems[CHOOSE i \in 1..Len(mems) : mems[i].id = memory_id]

\* [memory for memory in memories.values() if memory["session_id"] == session_id]
get_session_memories(mems, session_id) ==
    SelectSeq(mems, LAMBDA memory : memory.session_id = session_id)

\* Mutant: the count of all memories, not of the session's.
update_session_memory_count_all(sess, mems, session_id) ==
    [i \in 1..Len(sess) |->
        IF sess[i].id = session_id
        THEN [sess[i] EXCEPT !.memory_count = Len(mems)]
        ELSE sess[i]]

\* Mutant: the session's record is taken out and stored again, so it moves to the end.
update_session_memory_count_reinsert(sess, mems, session_id) ==
    SelectSeq(sess, LAMBDA session : session.id # session_id)
    \o [i \in 1..Len(SelectSeq(sess, LAMBDA session : session.id = session_id)) |->
           [SelectSeq(sess, LAMBDA session : session.id = session_id)[i]
               EXCEPT !.memory_count = Len(get_session_memories(mems, session_id))]]

\* update_session_memory_count(session_id), against the stores sess and mems
\* Mutant: recounting a session also stamps it with the time of the recount.
update_session_memory_count_restamp(sess, mems, session_id) ==
    [i \in 1..Len(sess) |->
        IF sess[i].id = session_id
        THEN [sess[i] EXCEPT
                 !.memory_count = Len(get_session_memories(mems, session_id)),
                 !.created_at = isoformat([s |-> 0, us |-> 1])]
        ELSE sess[i]]

update_session_memory_count(sess, mems, session_id) ==
    [i \in 1..Len(sess) |->
        IF sess[i].id = session_id
        THEN [sess[i] EXCEPT !.memory_count = Len(get_session_memories(mems, session_id))]
        ELSE sess[i]]

\* for memory_id in memory_ids_to_delete: del memories[memory_id]
DeleteMemories(mems, ids) ==
    SelectSeq(mems, LAMBDA memory : memory.id \notin ids)

\* del sessions[session_id]
DeleteSession(sess, session_id) ==
    SelectSeq(sess, LAMBDA session : session.id # session_id)

\* list.sort(key=lambda x: x["created_at"], reverse=True): stable, so items
\* with equal keys keep the order they had in the list.
RECURSIVE InsertDesc(_, _)
InsertDesc(x, sorted) ==
    IF sorted = <<>> THEN <<x>>
    ELSE IF StrLess(Head(sorted).created_at, x.created_at) THEN <<x>> \o sorted
    ELSE <<Head(sorted)>> \o InsertDesc(x, Tail(sorted))

RECURSIVE SortNewestFirst(_)
SortNewestFirst(list) ==
    IF list = <<>> THEN <<>>
    ELSE InsertDesc(list[Len(list)], SortNewestFirst(SubSeq(list, 1, Len(list) - 1)))

Ids(list) == {list[i].id : i \in 1..Len(list)}

-----------------------------------------------------------------------------
(* arguments *)

Missing(arguments, key) == key \notin DOMAIN arguments

\* `not arguments.get(key)` for a string argument: None or ""
NotStr(arguments, key) == Missing(arguments, key) \/ arguments[key] = <<>>

\* `not arguments.get(key)` for an id argument: None or ""
NotId(arguments, key) == Missing(arguments, key) \/ arguments[key] = EmptyId

\* arguments.get("tags", [])
TagsOf(arguments) == IF Missing(arguments, "tags") THEN <<>> ELSE arguments.tags

-----------------------------------------------------------------------------
(* Results *)

\* What a call returns: the records its text blocks are written from (out), and
\* the parts of the text that are computed for display only (text).
Result(op, arguments, err, out, count) ==
    [op |-> op, arguments |-> arguments, err |-> err, out |-> out, count |-> count,
     text |-> <<>>]

\* The default of the session name in a text block.
Unknown == <<"U", "n", "k", "n", "o", "w", "n">>

\* sessions[session_id]["name"] if session_id in sessions else "Unknown"
session_name_of(session_id) ==
    IF session_exists(session_id) THEN SessionOf(sessions, session_id).name ELSE Unknown

\* re.compile(re.escape(query), re.IGNORECASE).sub(f"**{query}**", content): every
\* occurrence of the query as given, whatever its case, found from left to right
\* without overlap, is replaced by the query between emphasis markers.
RECURSIVE sub(_, _)
sub(query, content) ==
    IF Len(content) < Len(query) THEN content
    ELSE IF lower(SubSeq(content, 1, Len(query))) = lower(query)
    THEN <<"*", "*">> \o query \o <<"*", "*">>
             \o sub(query, SubSeq(content, Len(query) + 1, Len(content)))
    ELSE <<Head(content)>> \o sub(query, Tail(content))

\* One "# Result i" text block of handle_search_memories.
ResultBlock(memory, query) ==
    LET query_lower == lower(strip(query))
    IN  [id |-> memory.id,
         session_name |-> session_name_of(memory.session_id),
         highlighted_content |->
             IF Contains(query_lower, lower(memory.content))
             THEN sub(query, memory.content)
             ELSE memory.content]

\* Mutant: the highlighted content is written into the memory shown.
ReturnSearch_in_place(arguments, matching_memories) ==
    LET blocks == [i \in 1..Len(matching_memories) |->
                      ResultBlock(matching_memories[i], arguments.query)]
        shown(memory) == CHOOSE i \in 1..Len(blocks) : blocks[i].id = memory.id
    IN  /\ last' = [Result("search_memories", arguments, "ok", matching_memories,
                           Len(matching_memories)) EXCEPT !.text = blocks]
        /\ memories' = [k \in 1..Len(memories) |->
                            IF InList(memories[k], matching_memories)
                            THEN [memories[k] EXCEPT
                                     !.content = blocks[shown(memories[k])].highlighted_content]
                            ELSE memories[k]]
        /\ UNCHANGED <<sessions, nextId>>

\* The result of handle_search_memories: the header and one block per match.
ReturnSearch(arguments, matching_memories) ==
    /\ last' = [Result("search_memories", arguments, "ok", matching_memories,
                       Len(matching_memories))
                   EXCEPT !.text = [i \in 1..Len(matching_memories) |->
                                       ResultBlock(matching_memories[i], arguments.query)]]
    /\ UNCHANGED <<sessions, memories, nextId>>

\* A handler returning an error text block before it touched a store.
ReturnError(op, arguments, err) ==
    /\ last' = Result(op, arguments, err, <<>>, 0)
    /\ UNCHANGED <<sessions, memories, nextId>>

\* A handler that only reads the stores.
ReturnQuery(op, arguments, out) ==
    /\ last' = Result(op, arguments, "ok", out, Len(out))
    /\ UNCHANGED <<sessions, memories, nextId>>

-----------------------------------------------------------------------------
(* Tool handlers *)

\* Mutant: the name is stored as given.
handle_create_session_untrimmed(arguments) ==
    IF NotStr(arguments, "name") \/ strip(arguments.name) = <<>>
    THEN ReturnError("create_session", arguments, "EmptyName")
    ELSE /\ nextId <= MaxIds
         /\ \E created_at \in get_current_time :
              LET session_id == generate_id
                  session == [id |-> session_id, name |-> arguments.name,
                              created_at |-> created_at, memory_count |-> 0]
              IN  /\ sessions' = Append(sessions, session)
                  /\ nextId' = nextId + 1
                  /\ last' = Result("create_session", arguments, "ok", <<session>>, 0)
         /\ UNCHANGED memories

handle_create_session(arguments) ==
    IF NotStr(arguments, "name") \/ strip(arguments.name) = <<>>
    THEN ReturnError("create_session", arguments, "EmptyName")
    ELSE /\ nextId <= MaxIds
         /\ \E created_at \in get_current_time :
              LET session_id == generate_id
                  session == [id |-> session_id, name |-> strip(arguments.name),
                              created_at |-> created_at, memory_count |-> 0]
              IN  /\ sessions' = Append(sessions, session)
                  /\ nextId' = nextId + 1
                  /\ last' = Result("create_session", arguments, "ok", <<session>>, 0)
         /\ UNCHANGED memories

handle_list_sessions(arguments) ==
    ReturnQuery("list_sessions", arguments, sessions)

\* Mutant: a missing or empty id is answered like an unknown one.
handle_delete_session_not_found_only(arguments) ==
    IF NotId(arguments, "session_id") \/ ~session_exists(arguments.session_id)
    THEN ReturnError("delete_session", arguments, "SessionNotFound")
    ELSE LET session_id == arguments.session_id
             session_memories == get_session_memories(memories, session_id)
         IN  /\ memories' = DeleteMemories(memories, Ids(session_memories))
             /\ sessions' = DeleteSession(sessions, session_id)
             /\ last' = Result("delete_session", arguments, "ok",
                               <<SessionOf(sessions, session_id)>>, Len(session_memories))
             /\ UNCHANGED nextId

\* Mutant: the session goes, its memories stay.
handle_delete_session_no_cascade(arguments) ==
    IF NotId(arguments, "session_id")
    THEN ReturnError("delete_session", arguments, "EmptySessionId")
    ELSE IF ~session_exists(arguments.session_id)
    THEN ReturnError("delete_session", arguments, "SessionNotFound")
    ELSE /\ sessions' = DeleteSession(sessions, arguments.session_id)
         /\ last' = Result("delete_session", arguments, "ok",
                           <<SessionOf(sessions, arguments.session_id)>>,
                           Len(get_session_memories(memories, arguments.session_id)))
         /\ UNCHANGED <<memories, nextId>>

handle_delete_session(arguments) ==
    IF NotId(arguments, "session_id")
    THEN ReturnError("delete_session", arguments, "EmptySessionId")
    ELSE IF ~session_exists(arguments.session_id)
    THEN ReturnError("delete_session", arguments, "SessionNotFound")
    ELSE LET session_id == arguments.session_id
             session == SessionOf(sessions, session_id)
             session_memories == get_session_memories(memories, session_id)
             memory_ids_to_delete == Ids(session_memories)
         IN  /\ memories' = DeleteMemories(memories, memory_ids_to_delete)
             /\ sessions' = DeleteSession(sessions, session_id)
             /\ last' = Result("delete_session", arguments, "ok", <<session>>,
                               Len(session_memories))
             /\ UNCHANGED nextId

\* Mutant: the memory is stored before the session is looked up.
handle_add_memory_store_first(arguments) ==
    IF NotId(arguments, "session_id")
    THEN ReturnError("add_memory", arguments, "EmptySessionId")
    ELSE IF NotStr(arguments, "content") \/ strip(arguments.content) = <<>>
    THEN ReturnError("add_memory", arguments, "EmptyContent")
    ELSE /\ nextId <= MaxIds
         /\ \E created_at \in get_current_time :
              LET session_id == arguments.session_id
                  memory == [id |-> generate_id, session_id |-> session_id,
                             content |-> strip(arguments.content),
                             created_at |-> created_at, tags |-> TagsOf(arguments)]
                  added == Append(memories, memory)
                  counted == update_session_memory_count(sessions, added, session_id)
              IN  /\ memories' = added
                  /\ sessions' = counted
                  /\ nextId' = nextId + 1
                  /\ last' = IF session_exists(session_id)
                             THEN Result("add_memory", arguments, "ok", <<memory>>,
                                         SessionOf(counted, session_id).memory_count)
                             ELSE Result("add_memory", arguments, "SessionNotFound", <<>>, 0)

\* Mutant: the session is looked up before the content is checked.
handle_add_memory_session_first(arguments) ==
    IF NotId(arguments, "session_id")
    THEN ReturnError("add_memory", arguments, "EmptySessionId")
    ELSE IF ~session_exists(arguments.session_id)
    THEN ReturnError("add_memory", arguments, "SessionNotFound")
    ELSE IF NotStr(arguments, "content") \/ strip(arguments.content) = <<>>
    THEN ReturnError("add_memory", arguments, "EmptyContent")
    ELSE /\ nextId <= MaxIds
         /\ \E created_at \in get_current_time :
              LET session_id == arguments.session_id
                  memory == [id |-> generate_id, session_id |-> session_id,
                             content |-> strip(arguments.content),
                             created_at |-> created_at, tags |-> TagsOf(arguments)]
                  added == Append(memories, memory)
                  counted == update_session_memory_count(sessions, added, session_id)
              IN  /\ memories' = added
                  /\ sessions' = counted
                  /\ nextId' = nextId + 1
                  /\ last' = Result("add_memory", arguments, "ok", <<memory>>,
                                    SessionOf(counted, session_id).memory_count)

handle_add_memory(arguments) ==
    IF NotId(arguments, "session_id")
    THEN ReturnError("add_memory", arguments, "EmptySessionId")
    ELSE IF NotStr(arguments, "content") \/ strip(arguments.content) = <<>>
    THEN ReturnError("add_memory", arguments, "EmptyContent")
    ELSE IF ~session_exists(arguments.session_id)
    THEN ReturnError("add_memory", arguments, "SessionNotFound")
    ELSE /\ nextId <= MaxIds
         /\ \E created_at \in get_current_time :
              LET session_id == arguments.session_id
                  memory_id == generate_id
                  memory == [id |-> memory_id, session_id |-> session_id,
                             content |-> strip(arguments.content),
                             created_at |-> created_at, tags |-> TagsOf(arguments)]
                  added == Append(memories, memory)
                  counted == update_session_memory_count(sessions, added, session_id)
              IN  /\ memories' = added
                  /\ sessions' = counted
                  /\ nextId' = nextId + 1
                  /\ last' = Result("add_memory", arguments, "ok", <<memory>>,
                                    SessionOf(counted, session_id).memory_count)

handle_get_memories(arguments) ==
    IF NotId(arguments, "session_id")
    THEN ReturnError("get_memories", arguments, "EmptySessionId")
    ELSE IF ~session_exists(arguments.session_id)
    THEN ReturnError("get_memories", arguments, "SessionNotFound")
    ELSE LET session_memories == get_session_memories(memories, arguments.session_id)
         IN  ReturnQuery("get_memories", arguments, SortNewestFirst(session_memories))

\* Mutant: the memory goes and the session's count stays.
handle_remove_memory_no_count(arguments) ==
    IF NotId(arguments, "memory_id")
    THEN ReturnError("remove_memory", arguments, "EmptyId")
    ELSE IF ~memory_exists(arguments.memory_id)
    THEN ReturnError("remove_memory", arguments, "MemoryNotFound")
    ELSE /\ memories' = DeleteMemories(memories, {arguments.memory_id})
         /\ last' = [Result("remove_memory", arguments, "ok",
                            <<MemoryOf(memories, arguments.memory_id)>>, 1)
                        EXCEPT !.text = <<session_name_of(
                                   MemoryOf(memories, arguments.memory_id).session_id)>>]
         /\ UNCHANGED <<sessions, nextId>>

handle_remove_memory(arguments) ==
    IF NotId(arguments, "memory_id")
    THEN ReturnError("remove_memory", arguments, "EmptyId")
    ELSE IF ~memory_exists(arguments.memory_id)
    THEN ReturnError("remove_memory", arguments, "MemoryNotFound")
    ELSE LET memory_id == arguments.memory_id
             memory == MemoryOf(memories, memory_id)
             session_id == memory.session_id
             session_name == session_name_of(session_id)
             removed == DeleteMemories(memories, {memory_id})
         IN  /\ memories' = removed
             /\ sessions' = IF session_exists(session_id)
                            THEN update_session_memory_count(sessions, removed, session_id)
                            ELSE sessions
             /\ last' = [Result("remove_memory", arguments, "ok", <<memory>>, 1)
                            EXCEPT !.text = <<session_name>>]
             /\ UNCHANGED nextId

\* Mutant: every memory goes, whatever its session.
handle_clear_session_all(arguments) ==
    IF NotId(arguments, "session_id")
    THEN ReturnError("clear_session", arguments, "EmptySessionId")
    ELSE IF ~session_exists(arguments.session_id)
    THEN ReturnError("clear_session", arguments, "SessionNotFound")
    ELSE /\ memories' = <<>>
         /\ sessions' = update_session_memory_count(sessions, <<>>, arguments.session_id)
         /\ last' = Result("clear_session", arguments, "ok", <<>>,
                           Len(get_session_memories(memories, arguments.session_id)))
         /\ UNCHANGED nextId

handle_clear_session(arguments) ==
    IF NotId(arguments, "session_id")
    THEN ReturnError("clear_session", arguments, "EmptySessionId")
    ELSE IF ~session_exists(arguments.session_id)
    THEN ReturnError("clear_session", arguments, "SessionNotFound")
    ELSE LET session_id == arguments.session_id
             session_memories == get_session_memories(memories, session_id)
             memory_count == Len(session_memories)
             cleared == DeleteMemories(memories, Ids(session_memories))
         IN  /\ memories' = cleared
             /\ sessions' = update_session_memory_count(sessions, cleared, session_id)
             /\ last' = Result("clear_session", arguments, "ok", <<>>, memory_count)
             /\ UNCHANGED nextId

\* Mutant: the content is compared in its own case.
Matches_case_sensitive(memory, query_lower, tags_filter) ==
    LET content_match == Contains(query_lower, memory.content)
        tag_match == IF tags_filter # <<>>
                     THEN \E i \in 1..Len(tags_filter) : InList(tags_filter[i], memory.tags)
                     ELSE TRUE
    IN  content_match /\ tag_match

\* Mutant: every tag of the filter is required.
Matches_all_tags(memory, query_lower, tags_filter) ==
    LET content_match == Contains(query_lower, lower(memory.content))
        tag_match == IF tags_filter # <<>>
                     THEN \A i \in 1..Len(tags_filter) : InList(tags_filter[i], memory.tags)
                     ELSE TRUE
    IN  content_match /\ tag_match

\* The loop of handle_search_memories over search_memories.
Matches(memory, query_lower, tags_filter) ==
    LET content_match == Contains(query_lower, lower(memory.content))
        tag_match == IF tags_filter # <<>>
                     THEN \E i \in 1..Len(tags_filter) : InList(tags_filter[i], memory.tags)
                     ELSE TRUE
    IN  content_match /\ tag_match

\* Mutant: the session is looked up before the query is checked.
handle_search_memories_session_first(arguments) ==
    IF ~NotId(arguments, "session_id") /\ ~session_exists(arguments.session_id)
    THEN ReturnError("search_memories", arguments, "SessionNotFound")
    ELSE IF NotStr(arguments, "query") \/ strip(arguments.query) = <<>>
    THEN ReturnError("search_memories", arguments, "EmptyQuery")
    ELSE LET search_memories == IF ~NotId(arguments, "session_id")
                                THEN get_session_memories(memories, arguments.session_id)
                                ELSE memories
             matching_memories ==
                 SelectSeq(search_memories,
                           LAMBDA memory : Matches(memory, lower(strip(arguments.query)),
                                                   TagsOf(arguments)))
         IN  ReturnQuery("search_memories", arguments, SortNewestFirst(matching_memories))

\* Mutant: the session given is checked but the search looks at every memory.
handle_search_memories_unscoped(arguments) ==
    IF NotStr(arguments, "query") \/ strip(arguments.query) = <<>>
    THEN ReturnError("search_memories", arguments, "EmptyQuery")
    ELSE IF ~NotId(arguments, "session_id") /\ ~session_exists(arguments.session_id)
    THEN ReturnError("search_memories", arguments, "SessionNotFound")
    ELSE LET matching_memories ==
                 SelectSeq(memories,
                           LAMBDA memory : Matches(memory, lower(strip(arguments.query)),
                                                   TagsOf(arguments)))
         IN  ReturnQuery("search_memories", arguments, SortNewestFirst(matching_memories))

handle_search_memories(arguments) ==
    IF NotStr(arguments, "query") \/ strip(arguments.query) = <<>>
    THEN ReturnError("search_memories", arguments, "EmptyQuery")
    ELSE IF ~NotId(arguments, "session_id") /\ ~session_exists(arguments.session_id)
    THEN ReturnError("search_memories", arguments, "SessionNotFound")
    ELSE LET search_memories == IF ~NotId(arguments, "session_id")
                                THEN get_session_memories(memories, arguments.session_id)
                                ELSE memories
             query_lower == lower(strip(arguments.query))
             tags_filter == TagsOf(arguments)
             matching_memories ==
                 SelectSeq(search_memories,
                           LAMBDA memory : Matches(memory, query_lower, tags_filter))
         IN  ReturnSearch(arguments, SortNewestFirst(matching_memories))

\* Mutant: an unknown tool name gives an error text block like any other error.
Raise_as_error(name, arguments, exception) ==
    ReturnError(name, arguments, "UnknownTool")

\* raise ValueError(f"Unknown tool: {name}"): the call ends without a result.
Raise(name, arguments, exception) ==
    /\ last' = Result(name, arguments, exception, <<>>, 0)
    /\ UNCHANGED <<sessions, memories, nextId>>

handle_call_tool(name, arguments) ==
    CASE name = "create_session" -> handle_create_session(arguments)
      [] name = "list_sessions" -> handle_list_sessions(arguments)
      [] name = "delete_session" -> handle_delete_session(arguments)
      [] name = "add_memory" -> handle_add_memory(arguments)
      [] name = "get_memories" -> handle_get_memories(arguments)
      [] name = "remove_memory" -> handle_remove_memory(arguments)
      [] name = "clear_session" -> handle_clear_session(arguments)
      [] name = "search_memories" -> handle_search_memories(arguments)
      [] OTHER -> Raise(name, arguments, "ValueError")

-----------------------------------------------------------------------------
(* The callers: what a request may carry *)

\* arguments without any key
NoArguments == [key \in {} |-> <<>>]

\* Id arguments: "" and every id generate_id can hand out (an id not handed out
\* yet, or the id of a deleted record, or a memory's id given as a session id,
\* is an id that does not exist).
IdArgs == EmptyId..MaxIds

\* Session names: empty, blank, and one to be trimmed.
Names == {<<>>, <<" ">>, <<" ", "n", " ">>}

\* Contents that cannot be stored: empty and blank.
BlankContents == {<<>>, <<" ">>}

\* What add_memory is asked to store: a content to be trimmed without tags, and
\* a content with a tag list that repeats a tag.
Payloads ==
    {[content |-> <<" ", "A", "b">>],
     [content |-> <<"b", " ">>, tags |-> <<"y", "x", "y">>]}

\* Queries: empty, blank, one in another case than the content, one to be trimmed.
BlankQueries == {<<>>, <<" ">>}

Queries == {<<"a">>, <<" ", "B">>}

\* Tag filters: a tag some memory has, the same tag in another case, and two
\* tags of which only the second is some memory's.
TagFilters == {<<"x">>, <<"X">>, <<"z", "y">>}

CreateArgs == {NoArguments} \cup {[name |-> name] : name \in Names}

SessionArgs == {NoArguments} \cup {[session_id |-> id] : id \in IdArgs}

MemoryArgs == {NoArguments} \cup {[memory_id |-> id] : id \in IdArgs}

AddArgs ==
    {NoArguments, [content |-> <<>>]}
    \cup {[session_id |-> id] : id \in IdArgs}
    \cup {[session_id |-> id, content |-> content] : id \in IdArgs, content \in BlankContents}
    \cup {[session_id |-> id] @@ payload : id \in IdArgs, payload \in Payloads}

SearchArgs ==
    {NoArguments}
    \cup {[query |-> query] : query \in BlankQueries \cup Queries}
    \cup {[query |-> query, session_id |-> id] :
             query \in BlankQueries \cup Queries, id \in IdArgs}
    \cup {[query |-> query, tags |-> tags] :
             query \in BlankQueries \cup Queries, tags \in TagFilters \cup {<<>>}}
    \cup {[query |-> query, session_id |-> id, tags |-> tags] :
             query \in Queries, id \in IdArgs, tags \in TagFilters}

\* No call is being handled: the server waits for the next request.
NoCall == Result("none", NoArguments, "ok", <<>>, 0)

Idle == last = NoCall

\* The threads that may run handlers in parallel.
Threads == {"t1", "t2"}

\* A thread that runs no handler.
IdleThread ==
    [pc |-> "idle", session_id |-> EmptyId, memory_ids_to_delete |-> <<>>, i |-> 0]

Init ==
    /\ sessions = <<>>
    /\ memories = <<>>
    /\ nextId = 1
    /\ last = NoCall
    /\ threads = [t \in Threads |-> IdleThread]

\* The result of the call goes back to the caller; the next request can be taken.
Respond ==
    /\ ~Idle
    /\ last' = NoCall
    /\ UNCHANGED <<sessions, memories, nextId, threads>>

UnknownTools == {"rename_session"}

Next ==
    \/ \E arguments \in CreateArgs :
          Idle /\ handle_call_tool("create_session", arguments) /\ UNCHANGED threads
    \/ Idle /\ handle_call_tool("list_sessions", NoArguments) /\ UNCHANGED threads
    \/ \E arguments \in SessionArgs :
          Idle /\ handle_call_tool("delete_session", arguments) /\ UNCHANGED threads
    \/ \E arguments \in AddArgs :
          Idle /\ handle_call_tool("add_memory", arguments) /\ UNCHANGED threads
    \/ \E arguments \in SessionArgs :
          Idle /\ handle_call_tool("get_memories", arguments) /\ UNCHANGED threads
    \/ \E arguments \in MemoryArgs :
          Idle /\ handle_call_tool("remove_memory", arguments) /\ UNCHANGED threads
    \/ \E arguments \in SessionArgs :
          Idle /\ handle_call_tool("clear_session", arguments) /\ UNCHANGED threads
    \/ \E arguments \in SearchArgs :
          Idle /\ handle_call_tool("search_memories", arguments) /\ UNCHANGED threads
    \/ \E name \in UnknownTools :
          Idle /\ handle_call_tool(name, NoArguments) /\ UNCHANGED threads
    \/ Respond

Spec == Init /\ [][Next]_vars

-----------------------------------------------------------------------------
(* Callers in parallel threads, with no lock: the handlers' statements interleave.
   Each action is one statement (or a run of statements that touch only the
   thread's own variables and end with one access to the stores) of
   handle_create_session, handle_add_memory or handle_delete_session.  The
   statements after the last write of a handler only read. *)

Goto(t, pc) == threads' = [threads EXCEPT ![t].pc = pc]

Finish(t) == threads' = [threads EXCEPT ![t] = IdleThread]

\* Adds that passed their checks and have not taken their id yet.
PendingAdds == Cardinality({t \in Threads : threads[t].pc = "add_store"})

\* handle_create_session, lines 214-230: one write to sessions.
T_create_session(t) ==
    /\ threads[t].pc = "idle"
    /\ nextId + PendingAdds <= MaxIds
    /\ \E created_at \in get_current_time :
          sessions' = Append(sessions, [id |-> generate_id, name |-> <<"n">>,
                                        created_at |-> created_at, memory_count |-> 0])
    /\ nextId' = nextId + 1
    /\ UNCHANGED <<memories, last, threads>>

\* handle_add_memory, lines 297-317: the checks, the last one session_exists.
T_add_check(t, session_id) ==
    /\ threads[t].pc = "idle"
    /\ nextId + PendingAdds <= MaxIds
    /\ IF session_exists(session_id)
       THEN threads' = [threads EXCEPT ![t].pc = "add_store", ![t].session_id = session_id]
       ELSE UNCHANGED threads
    /\ UNCHANGED <<sessions, memories, nextId, last>>

\* handle_add_memory, lines 319-328: memories[memory_id] = {...}
T_add_store(t) ==
    /\ threads[t].pc = "add_store"
    /\ \E created_at \in get_current_time :
          memories' = Append(memories,
                             [id |-> generate_id, session_id |-> threads[t].session_id,
                              content |-> <<"b">>, created_at |-> created_at,
                              tags |-> <<>>])
    /\ nextId' = nextId + 1
    /\ Goto(t, "add_count")
    /\ UNCHANGED <<sessions, last>>

\* handle_add_memory, line 331: update_session_memory_count(session_id)
T_add_count(t) ==
    /\ threads[t].pc = "add_count"
    /\ sessions' = update_session_memory_count(sessions, memories, threads[t].session_id)
    /\ Finish(t)
    /\ UNCHANGED <<memories, nextId, last>>

\* handle_delete_session, lines 264-276: the checks, the last one session_exists.
T_del_check(t, session_id) ==
    /\ threads[t].pc = "idle"
    /\ IF session_exists(session_id)
       THEN threads' = [threads EXCEPT ![t].pc = "del_collect", ![t].session_id = session_id]
       ELSE UNCHANGED threads
    /\ UNCHANGED <<sessions, memories, nextId, last>>

\* handle_delete_session, lines 279-283: sessions[session_id] (a KeyError ends
\* the call when the session is gone) and the list of the session's memory ids.
T_del_collect(t) ==
    /\ threads[t].pc = "del_collect"
    /\ IF session_exists(threads[t].session_id)
       THEN LET session_memories == get_session_memories(memories, threads[t].session_id)
            IN  threads' = [threads EXCEPT
                    ![t].pc = IF session_memories = <<>> THEN "del_session"
                              ELSE "del_memories",
                    ![t].memory_ids_to_delete =
                        [i \in 1..Len(session_memories) |-> session_memories[i].id]]
       ELSE Finish(t)
    /\ UNCHANGED <<sessions, memories, nextId, last>>

\* Mutant: the loop goes through the ids and deletes nothing.
T_del_memories_skip(t) ==
    /\ threads[t].pc = "del_memories"
    /\ threads' = [threads EXCEPT ![t].pc = "del_session",
                                  ![t].i = Len(threads[t].memory_ids_to_delete)]
    /\ UNCHANGED <<sessions, memories, nextId, last>>

\* handle_delete_session, lines 284-285: one iteration of the loop
\* `del memories[memory_id]`; a KeyError ends the call when the memory is gone.
T_del_memories(t) ==
    /\ threads[t].pc = "del_memories"
    /\ LET memory_id == threads[t].memory_ids_to_delete[threads[t].i + 1]
       IN  IF memory_exists(memory_id)
           THEN /\ memories' = DeleteMemories(memories, {memory_id})
                /\ threads' = [threads EXCEPT
                       ![t].i = threads[t].i + 1,
                       ![t].pc = IF threads[t].i + 1 = Len(threads[t].memory_ids_to_delete)
                                 THEN "del_session" ELSE "del_memories"]
           ELSE /\ Finish(t)
                /\ UNCHANGED memories
    /\ UNCHANGED <<sessions, nextId, last>>

\* handle_delete_session, line 288: del sessions[session_id] (a KeyError when gone)
T_del_session(t) ==
    /\ threads[t].pc = "del_session"
    /\ sessions' = DeleteSession(sessions, threads[t].session_id)
    /\ Finish(t)
    /\ UNCHANGED <<memories, nextId, last>>

NextThreads ==
    \/ \E t \in Threads : T_create_session(t)
    \/ \E t \in Threads, session_id \in 1..MaxIds : T_add_check(t, session_id)
    \/ \E t \in Threads : T_add_store(t)
    \/ \E t \in Threads : T_add_count(t)
    \/ \E t \in Threads, session_id \in 1..MaxIds : T_del_check(t, session_id)
    \/ \E t \in Threads : T_del_collect(t)
    \/ \E t \in Threads : T_del_memories(t)
    \/ \E t \in Threads : T_del_session(t)

SpecThreads == Init /\ [][NextThreads]_vars

-----------------------------------------------------------------------------
(* Properties *)

\* The step is a call of `op` (a call is taken only when no call is being handled).
Called(op) == last'.op = op

Succeeded(op) == last'.op = op /\ last'.err = "ok"

\* The ids of the memories of `mems` that reference session `session_id`.
MemoryIdsOf(mems, session_id) ==
    {mems[i].id : i \in {j \in 1..Len(mems) : mems[j].session_id = session_id}}

Range(list) == {list[i] : i \in 1..Len(list)}

\* The structured errors of the failure policy.
DomainErrors ==
    {"EmptyName", "EmptySessionId", "EmptyContent", "EmptyQuery", "EmptyId",
     "SessionNotFound", "MemoryNotFound"}

\* A string without a character that is not whitespace.
IsBlank(s) == \A i \in 1..Len(s) : s[i] \in Whitespace

\* C1: in every reachable state each stored session's memory_count equals the
\* number of stored memories whose session_id is that session's id.
C1_MemoryCount ==
    \A i \in 1..Len(sessions) :
        sessions[i].memory_count = Cardinality(MemoryIdsOf(memories, sessions[i].id))

\* C1 witness: a memory was removed from a session that keeps another one, while
\* a second session is stored.
C1_Witness ==
    /\ last.op = "remove_memory" /\ last.err = "ok"
    /\ Len(sessions) = 2
    /\ \E i \in 1..Len(sessions) :
          /\ sessions[i].id = last.out[1].session_id
          /\ sessions[i].memory_count = 1

\* C2: with calls handled one at a time, no stored memory is an orphan: its
\* session_id is the id of a stored session.
C2_NoOrphan ==
    \A i \in 1..Len(memories) :
        \E j \in 1..Len(sessions) : sessions[j].id = memories[i].session_id

\* C2 witness: a session that had memories was deleted and another session's
\* memory is still stored.
C2_Witness ==
    /\ last.op = "delete_session" /\ last.err = "ok"
    /\ last.count >= 1
    /\ memories # <<>>

\* C3: a successful delete_session(id) removes session id and every memory that
\* references id, reports the number of memories that referenced id before the
\* call, and from then on get_memories(id) yields SessionNotFound: an id that was
\* handed out and is not stored is never stored again, and get_memories of an id
\* that is not stored yields SessionNotFound.
C3_DeleteSession ==
    [][/\ Succeeded("delete_session") =>
            LET id == last'.arguments.session_id
            IN  /\ id \in Ids(sessions)
                /\ id \notin Ids(sessions')
                /\ MemoryIdsOf(memories', id) = {}
                /\ Ids(memories') = Ids(memories) \ MemoryIdsOf(memories, id)
                /\ last'.count = Cardinality(MemoryIdsOf(memories, id))
       /\ \A id \in 1..(nextId - 1) : id \notin Ids(sessions) => id \notin Ids(sessions')
       /\ (Called("get_memories") /\ ~Missing(last'.arguments, "session_id")
              /\ last'.arguments.session_id \in 1..(nextId - 1)
              /\ last'.arguments.session_id \notin Ids(sessions))
          => last'.err = "SessionNotFound"
      ]_vars

\* C3 witness: get_memories of a session that was deleted together with two
\* memories, after a new session was created.
C3_Witness ==
    /\ last.op = "get_memories" /\ last.err = "SessionNotFound"
    /\ last.arguments.session_id = 1
    /\ nextId = 5
    /\ Len(sessions) = 1
    /\ memories = <<>>

\* C4: a successful clear_session(id) keeps session id with memory_count 0,
\* removes exactly the memories that referenced id, reports their number, and
\* leaves every other session and every other memory as it was.
C4_ClearSession ==
    [][Succeeded("clear_session") =>
          LET id == last'.arguments.session_id
          IN  /\ Len(sessions') = Len(sessions)
              /\ \A i \in 1..Len(sessions) :
                    IF sessions[i].id = id
                    THEN sessions'[i] = [sessions[i] EXCEPT !.memory_count = 0]
                    ELSE sessions'[i] = sessions[i]
              /\ id \in Ids(sessions')
              /\ memories' = SelectSeq(memories, LAMBDA memory : memory.session_id # id)
              /\ last'.count = Cardinality(MemoryIdsOf(memories, id))
      ]_vars

\* C4 witness: a session with a memory was cleared while another session keeps
\* its memory.
C4_Witness ==
    /\ last.op = "clear_session" /\ last.err = "ok"
    /\ last.count >= 1
    /\ Len(sessions) = 2
    /\ memories # <<>>
    /\ \E i \in 1..Len(sessions) : sessions[i].memory_count >= 1

\* C5: a call that ends in a validation or not-found error leaves both stores as
\* they were; a call either ends in such an error or is applied.
C5_ErrorsChangeNothing ==
    [][/\ last'.err \in DomainErrors => sessions' = sessions /\ memories' = memories
       /\ (sessions' # sessions \/ memories' # memories) => last'.err = "ok"
      ]_vars

\* C5 witness: add_memory failed on an unknown session while both stores hold
\* records.
C5_Witness ==
    /\ last.op = "add_memory" /\ last.err = "SessionNotFound"
    /\ sessions # <<>>
    /\ memories # <<>>

\* C6: add_memory checks session_id present, then content non-blank, then the
\* session's existence; the first failing check gives the error.
C6_AddMemoryCheckOrder ==
    last.op = "add_memory" =>
        LET a == last.arguments
            noId == "session_id" \notin DOMAIN a \/ a.session_id = EmptyId
            noContent == "content" \notin DOMAIN a \/ IsBlank(a.content)
        IN  last.err =
                IF noId THEN "EmptySessionId"
                ELSE IF noContent THEN "EmptyContent"
                ELSE IF a.session_id \notin Ids(sessions) THEN "SessionNotFound"
                ELSE "ok"

\* C6 witness: blank content for a session that does not exist yields EmptyContent.
C6_Witness ==
    /\ last.op = "add_memory" /\ last.err = "EmptyContent"
    /\ "content" \in DOMAIN last.arguments
    /\ last.arguments.content = <<" ">>
    /\ last.arguments.session_id \notin Ids(sessions)
    /\ sessions # <<>>

\* n whitespace characters
Blanks(n) == [i \in 1..n |-> " "]

\* t is s without its leading and trailing whitespace.
IsTrimOf(t, s) ==
    /\ t # <<>> => Head(t) \notin Whitespace /\ t[Len(t)] \notin Whitespace
    /\ \E before, after \in 0..Len(s) : s = Blanks(before) \o t \o Blanks(after)

\* The tag sequence the caller supplied (none supplied: the empty one).
SuppliedTags(a) == IF "tags" \in DOMAIN a THEN a.tags ELSE <<>>

\* C7: add_memory(sid, content, tags) into a session without memories stores one
\* memory for sid, with the trimmed content and the supplied tags as they are;
\* get_memories(sid) of a session that holds one memory returns that memory as
\* stored.  So add_memory followed by get_memories returns exactly that memory.
C7_RoundTrip ==
    [][/\ (Succeeded("add_memory")
              /\ MemoryIdsOf(memories, last'.arguments.session_id) = {})
          => LET stored == SelectSeq(memories',
                     LAMBDA memory : memory.session_id = last'.arguments.session_id)
             IN  /\ Len(stored) = 1
                 /\ IsTrimOf(stored[1].content, last'.arguments.content)
                 /\ stored[1].tags = SuppliedTags(last'.arguments)
       /\ Succeeded("get_memories")
          => LET stored == SelectSeq(memories,
                     LAMBDA memory : memory.session_id = last'.arguments.session_id)
             IN  Len(stored) = 1 => last'.out = stored
      ]_vars

\* C7 witness: get_memories returns the one memory of a session, whose content
\* was given with trailing whitespace and whose tags repeat a tag.
C7_Witness ==
    /\ last.op = "get_memories" /\ last.err = "ok"
    /\ Len(last.out) = 1
    /\ last.out[1].content = <<"b">>
    /\ last.out[1].tags = <<"y", "x", "y">>

Reverse(list) == [i \in 1..Len(list) |-> list[Len(list) + 1 - i]]

\* C8: get_memories(sid) returns the memories of sid in reverse order of
\* addition, memories with equal created_at included.
C8_NewestFirst ==
    (last.op = "get_memories" /\ last.err = "ok") =>
        last.out = Reverse(SelectSeq(memories,
                       LAMBDA memory : memory.session_id = last.arguments.session_id))

\* s occurs in t
IsSubstring(s, t) ==
    \E before, after \in 0..Len(t) :
        /\ before + Len(s) + after = Len(t)
        /\ \A i \in 1..Len(s) : t[before + i] = s[i]

\* The memories a search looks at: those of the session given, or all.
SearchUniverse(a) ==
    IF "session_id" \in DOMAIN a /\ a.session_id # EmptyId
    THEN SelectSeq(memories, LAMBDA memory : memory.session_id = a.session_id)
    ELSE memories

\* The memory's content contains the query, trimmed, whatever the case.
ContentMatches(memory, query) ==
    \E trimmed \in {SubSeq(query, i, j) : i, j \in 1..Len(query)} :
        /\ IsTrimOf(trimmed, query)
        /\ IsSubstring(lower(trimmed), lower(memory.content))

\* The memory has one of the filter's tags.
HasOneOf(memory, tags) ==
    \E i \in 1..Len(tags), j \in 1..Len(memory.tags) : tags[i] = memory.tags[j]

\* C9: without a tags filter, search_memories returns exactly the memories of
\* the search universe whose lower-cased content contains the trimmed,
\* lower-cased query, each once.
C9_SearchByContent ==
    (last.op = "search_memories" /\ last.err = "ok"
        /\ SuppliedTags(last.arguments) = <<>>) =>
        /\ Ids(last.out) =
              {m.id : m \in {memory \in Range(SearchUniverse(last.arguments)) :
                                ContentMatches(memory, last.arguments.query)}}
        /\ Cardinality(Ids(last.out)) = Len(last.out)
        /\ \A i \in 1..Len(last.out) : InList(last.out[i], memories)

\* C9 witness: a search over all sessions, for a query in another case than the
\* content, returns one memory and leaves one out.
C9_Witness ==
    /\ last.op = "search_memories" /\ last.err = "ok"
    /\ last.arguments = [query |-> <<"a">>]
    /\ Len(last.out) = 1
    /\ Len(memories) = 2

\* C10: with a tags filter, search_memories returns a memory whose content
\* matches iff one of the filter's tags equals one of the memory's tags.
C10_SearchByTags ==
    (last.op = "search_memories" /\ last.err = "ok"
        /\ SuppliedTags(last.arguments) # <<>>) =>
        /\ \A memory \in Range(SearchUniverse(last.arguments)) :
              ContentMatches(memory, last.arguments.query) =>
                  (InList(memory, last.out)
                      <=> HasOneOf(memory, last.arguments.tags))
        /\ \A i \in 1..Len(last.out) : last.out[i].tags # <<>>

\* C10 witness: a filter of two tags, of which the memory returned has only the
\* second, while a memory without tags whose content matches is left out.
C10_Witness ==
    /\ last.op = "search_memories" /\ last.err = "ok"
    /\ last.arguments = [query |-> <<" ", "B">>, tags |-> <<"z", "y">>]
    /\ Len(last.out) = 1
    /\ \E i \in 1..Len(memories) :
          memories[i].tags = <<>> /\ ContentMatches(memories[i], <<"b">>)

\* C11: search_memories with a missing, empty or blank query yields EmptyQuery
\* whatever session_id and tags are, a session_id of no stored session included.
C11_EmptyQueryFirst ==
    (last.op = "search_memories"
        /\ ("query" \notin DOMAIN last.arguments \/ IsBlank(last.arguments.query)))
    => last.err = "EmptyQuery" /\ last.out = <<>>

\* C11 witness: a blank query with the id of no stored session, while a session
\* is stored.
C11_Witness ==
    /\ last.op = "search_memories" /\ last.err = "EmptyQuery"
    /\ "query" \in DOMAIN last.arguments
    /\ last.arguments.query = <<" ">>
    /\ "session_id" \in DOMAIN last.arguments
    /\ last.arguments.session_id # EmptyId
    /\ last.arguments.session_id \notin Ids(sessions)
    /\ sessions # <<>>

\* C12: search_memories with a valid query and a session_id argument that is
\* not the id of a stored session yields SessionNotFound and returns no memory,
\* whatever the session_id value supplied.
C12_UnknownSessionSearch ==
    (last.op = "search_memories"
        /\ "query" \in DOMAIN last.arguments /\ ~IsBlank(last.arguments.query)
        /\ "session_id" \in DOMAIN last.arguments
        /\ last.arguments.session_id \notin Ids(sessions))
    => last.err = "SessionNotFound" /\ last.out = <<>>

\* The memory passes the query and the tags filter of the search arguments a.
SearchMatches(memory, a) ==
    /\ ContentMatches(memory, a.query)
    /\ SuppliedTags(a) # <<>> => HasOneOf(memory, a.tags)

\* C13: search_memories with the id of a stored session returns only memories
\* of that session, and exactly what the same search without session_id returns
\* (every matching memory of any session, newest first) restricted to the session.
C13_SearchScope ==
    (last.op = "search_memories" /\ last.err = "ok") =>
        LET a == last.arguments
            everywhere ==
                SortNewestFirst(SelectSeq(memories, LAMBDA memory : SearchMatches(memory, a)))
        IN  IF "session_id" \in DOMAIN a /\ a.session_id # EmptyId
            THEN /\ \A i \in 1..Len(last.out) : last.out[i].session_id = a.session_id
                 /\ last.out = SelectSeq(everywhere,
                                   LAMBDA memory : memory.session_id = a.session_id)
            ELSE last.out = everywhere

\* C13 witness: a search within one session returns its memory and not the
\* matching memory of another session.
C13_Witness ==
    /\ last.op = "search_memories" /\ last.err = "ok"
    /\ "session_id" \in DOMAIN last.arguments
    /\ last.arguments.session_id # EmptyId
    /\ Len(last.out) = 1
    /\ \E i \in 1..Len(memories) :
          /\ memories[i].session_id # last.arguments.session_id
          /\ SearchMatches(memories[i], last.arguments)

\* The eight tool names.
ToolNames ==
    {"create_session", "list_sessions", "delete_session", "add_memory",
     "get_memories", "remove_memory", "clear_session", "search_memories"}

\* C14: a call of a tool name outside the eight raises instead of returning a
\* result or an error text block, and leaves both stores as they were.
C14_UnknownToolRaises ==
    [][(last'.op \notin ToolNames \cup {"none"}) =>
          /\ last'.err = "ValueError"
          /\ last'.out = <<>>
          /\ sessions' = sessions
          /\ memories' = memories
      ]_vars

\* C14 witness: an unknown tool was called while both stores hold records.
C14_Witness ==
    /\ last.op \in UnknownTools /\ last.err = "ValueError"
    /\ sessions # <<>>
    /\ memories # <<>>

\* C15: list_sessions returns every stored session once, in creation order (ids
\* are handed out in increasing order), each with its current memory_count.
C15_ListSessions ==
    (last.op = "list_sessions") =>
        /\ last.err = "ok"
        /\ Ids(last.out) = Ids(sessions)
        /\ Len(last.out) = Cardinality(Ids(sessions))
        /\ \A i, j \in 1..Len(last.out) : i < j => last.out[i].id < last.out[j].id
        /\ \A i \in 1..Len(last.out) :
              /\ InList(last.out[i], sessions)
              /\ last.out[i].memory_count
                     = Cardinality(MemoryIdsOf(memories, last.out[i].id))

\* C15 witness: the first and the third session created are listed in that
\* order after the second was deleted and a memory was added to the first.
C15_Witness ==
    /\ last.op = "list_sessions"
    /\ Len(last.out) = 2
    /\ last.out[1].id = 1 /\ last.out[1].memory_count = 1
    /\ last.out[2].id = 3

\* C16: delete_session(id) and clear_session(id) with any id that is not the id
\* of a stored session fail with SessionNotFound, their only error outcome.
C16_OnlySessionNotFound ==
    [][(Called("delete_session") \/ Called("clear_session")) =>
          /\ ("session_id" \in DOMAIN last'.arguments
                 /\ last'.arguments.session_id \notin Ids(sessions))
             => last'.err = "SessionNotFound"
          /\ last'.err \in {"ok", "SessionNotFound"}
      ]_vars

\* C16 amended: delete_session and clear_session fail with EmptySessionId when
\* the id is missing or empty, with SessionNotFound when it is a non-empty id of
\* no stored session, and succeed otherwise; these are their only errors.
C16_SessionErrors ==
    [][(Called("delete_session") \/ Called("clear_session")) =>
          LET a == last'.arguments
          IN  last'.err =
                  IF "session_id" \notin DOMAIN a \/ a.session_id = EmptyId
                  THEN "EmptySessionId"
                  ELSE IF a.session_id \notin Ids(sessions) THEN "SessionNotFound"
                  ELSE "ok"
      ]_vars

\* C16 witness: delete_session with the empty string as id, while a session is stored.
C16_Witness ==
    /\ last.op = "delete_session" /\ last.err = "EmptySessionId"
    /\ last.arguments = [session_id |-> EmptyId]
    /\ sessions # <<>>

\* C17: with handlers' statements interleaved and no lock, an add_memory running
\* concurrently with a delete_session of the same session leaves a stored memory
\* whose session is not stored.  The state is reached (C17_Witness), and it is
\* reached in these two ways only: add_memory stores its memory after the
\* session it checked was deleted, or delete_session deletes the session while a
\* memory added after it listed the session's memories is stored.
C17_OrphanByInterleaving ==
    [][(C2_NoOrphan /\ ~C2_NoOrphan') =>
          \E t \in Threads :
              \/ /\ threads[t].pc = "add_store" /\ threads'[t].pc = "add_count"
                 /\ threads[t].session_id \notin Ids(sessions)
              \/ /\ threads[t].pc = "del_session" /\ threads'[t].pc = "idle"
                 /\ \E i \in 1..Len(memories) :
                       /\ memories[i].session_id = threads[t].session_id
                       /\ ~InList(memories[i].id, threads[t].memory_ids_to_delete)
      ]_vars

\* C17 witness: every call has returned and a stored memory references a
\* session that is not stored.
C17_Witness ==
    /\ \A t \in Threads : threads[t].pc = "idle"
    /\ \E i \in 1..Len(memories) : memories[i].session_id \notin Ids(sessions)

\* a <= b for created_at strings
NotAfter(a, b) == ~StrLess(b, a)

\* C18: created_at never decreases from one creation to the next, sessions and
\* memories alike: of two stored records, the one created later (the greater id)
\* has a created_at greater than or equal to the other's.
C18_MonotonicCreatedAt ==
    \A earlier, later \in
            {[id |-> m.id, created_at |-> m.created_at] : m \in Range(memories)} \cup
            {[id |-> x.id, created_at |-> x.created_at] : x \in Range(sessions)} :
        earlier.id < later.id => NotAfter(earlier.created_at, later.created_at)

\* The place of a memory in the memory store (its insertion rank).
PlaceOf(memory) == CHOOSE i \in 1..Len(memories) : memories[i].id = memory.id

\* C19: search_memories returns its matches by created_at, greatest first, and
\* among matches with equal created_at the one inserted later first.
C19_SearchNewestFirst ==
    (last.op = "search_memories" /\ last.err = "ok") =>
        \A i, j \in 1..Len(last.out) : i < j =>
            /\ NotAfter(last.out[j].created_at, last.out[i].created_at)
            /\ last.out[i].created_at = last.out[j].created_at
               => PlaceOf(last.out[i]) > PlaceOf(last.out[j])

\* C20: a successful remove_memory(id) removes exactly memory id, lowers its
\* session's memory_count by one and changes nothing else of any session and no
\* other memory; a missing or empty id yields EmptyId and an id that is not in
\* the memory store yields MemoryNotFound.
C20_RemoveMemory ==
    [][Called("remove_memory") =>
          LET a == last'.arguments
          IN  IF "memory_id" \notin DOMAIN a \/ a.memory_id = EmptyId
              THEN last'.err = "EmptyId"
              ELSE IF a.memory_id \notin Ids(memories)
              THEN last'.err = "MemoryNotFound"
              ELSE /\ last'.err = "ok"
                   /\ memories' = SelectSeq(memories,
                                      LAMBDA memory : memory.id # a.memory_id)
                   /\ Len(memories') = Len(memories) - 1
                   /\ Len(sessions') = Len(sessions)
                   /\ \E owner \in 1..Len(sessions) :
                         /\ sessions[owner].id = MemoryOf(memories, a.memory_id).session_id
                         /\ sessions'[owner] =
                                [sessions[owner] EXCEPT
                                    !.memory_count = sessions[owner].memory_count - 1]
                         /\ \A i \in 1..Len(sessions) \ {owner} :
                               sessions'[i] = sessions[i]
      ]_vars

\* C20 witness: a memory was removed from a session that keeps another memory,
\* while another session is stored.
C20_Witness ==
    /\ last.op = "remove_memory" /\ last.err = "ok"
    /\ Len(sessions) = 2
    /\ Len(memories) = 1
    /\ memories[1].session_id = last.out[1].session_id

\* C21: a successful add_memory(sid, ...) adds exactly one memory, under an id
\* that was not in the memory store, with session_id = sid, raises the
\* memory_count of sid by exactly one and changes no other memory and no other
\* session; a successful create_session adds exactly one session, under an id
\* that was not in the session store, with memory_count 0 and the trimmed name,
\* and changes nothing else.
C21_AddAndCreate ==
    [][/\ Succeeded("add_memory") =>
             LET sid == last'.arguments.session_id
             IN  /\ Len(memories') = Len(memories) + 1
                 /\ SubSeq(memories', 1, Len(memories)) = memories
                 /\ memories'[Len(memories')].id \notin Ids(memories)
                 /\ memories'[Len(memories')].session_id = sid
                 /\ Len(sessions') = Len(sessions)
                 /\ \E owner \in 1..Len(sessions) :
                       /\ sessions[owner].id = sid
                       /\ sessions'[owner] =
                              [sessions[owner] EXCEPT
                                  !.memory_count = sessions[owner].memory_count + 1]
                       /\ \A i \in 1..Len(sessions) \ {owner} :
                             sessions'[i] = sessions[i]
       /\ Succeeded("create_session") =>
             /\ Len(sessions') = Len(sessions) + 1
             /\ SubSeq(sessions', 1, Len(sessions)) = sessions
             /\ sessions'[Len(sessions')].id \notin Ids(sessions)
             /\ sessions'[Len(sessions')].memory_count = 0
             /\ IsTrimOf(sessions'[Len(sessions')].name, last'.arguments.name)
             /\ memories' = memories
      ]_vars

\* C21 witness: a memory was added to the second of two sessions, the first of
\* which has a memory, and the name given to the second session had blanks
\* around it.
C21_Witness ==
    /\ last.op = "add_memory" /\ last.err = "ok"
    /\ Len(sessions) = 2 /\ Len(memories) = 2
    /\ memories[1].session_id = sessions[1].id
    /\ memories[2].session_id = sessions[2].id
    /\ sessions[2].name = <<"n">>

\* C22: list_sessions, get_memories and search_memories, successful or not,
\* leave every session record and every memory as it was, the content of the
\* memories that a search shows highlighted included.
C22_QueriesReadOnly ==
    [][(Called("list_sessions") \/ Called("get_memories") \/ Called("search_memories"))
          => /\ sessions' = sessions
             /\ memories' = memories
      ]_vars

\* C22 witness: a search showed a memory with its content highlighted, and the
\* memory is stored with the content it had.
C22_Witness ==
    /\ last.op = "search_memories" /\ last.err = "ok"
    /\ Len(last.out) = 1
    /\ last.text[1].highlighted_content = <<"*", "*", "a", "*", "*", "b">>
    /\ \E i \in 1..Len(memories) :
          memories[i].id = last.out[1].id /\ memories[i].content = <<"A", "b">>

\* C23: from one state to the next a memory that stays stored keeps its id,
\* session_id, content, created_at and tags, and a session that stays stored
\* keeps its id, name and created_at: memory_count is the only field that
\* changes on a stored record.
C23_OnlyCountChanges ==
    [][/\ \A i \in 1..Len(memories), j \in 1..Len(memories') :
             memories'[j].id = memories[i].id => memories'[j] = memories[i]
       /\ \A i \in 1..Len(sessions), j \in 1..Len(sessions') :
             sessions'[j].id = sessions[i].id =>
                 sessions'[j] = [sessions[i] EXCEPT
                                    !.memory_count = sessions'[j].memory_count]
      ]_vars

\* C23 witness: a second memory was added to a session, whose count changed
\* while its first memory stays stored.
C23_Witness ==
    /\ last.op = "add_memory" /\ last.err = "ok"
    /\ last.count = 2
    /\ Len(memories) = 2
    /\ memories[1].session_id = memories[2].session_id

\* C24: with calls processed one at a time, a memory that remove_memory finds
\* has a stored session (its name is shown, never the default, and its count is
\* updated), and every memory that search_memories returns has a stored session.
C24_OwnerStored ==
    [][/\ Succeeded("remove_memory") =>
             LET memory == MemoryOf(memories, last'.arguments.memory_id)
             IN  /\ memory.session_id \in Ids(sessions)
                 /\ last'.text # <<Unknown>>
                 /\ sessions' # sessions
       /\ Succeeded("search_memories") =>
             \A i \in 1..Len(last'.out) :
                 /\ last'.out[i].session_id \in Ids(sessions)
                 /\ last'.text[i].session_name # Unknown
      ]_vars

\* C24 witness: a memory was removed and the name of its session was shown,
\* after another session was deleted.
C24_Witness ==
    /\ last.op = "remove_memory" /\ last.err = "ok"
    /\ last.text = << <<"n">> >>
    /\ Len(sessions) = 1
    /\ sessions[1].id > 1

\* C25: every memory returned by search_memories is shown with a highlighted
\* content that differs from its stored content, whatever the accepted query,
\* queries with leading or trailing whitespace included.
C25_HighlightDiffers ==
    (last.op = "search_memories" /\ last.err = "ok") =>
        \A i \in 1..Len(last.out) :
            last.text[i].highlighted_content # last.out[i].content

=============================================================================
